---- MODULE Spec2Model ----
(***************************************************************************)
(* Verification model of the parameter layer of juce-distortion:           *)
(*   PluginParameter        (PluginParameter.h, here src/unnamed/part_000) *)
(*   PluginAudioProcessor   (src/Source/PluginProcessor.h)                 *)
(*                                                                         *)
(* Numbers.  The C++ code computes on IEEE-754 `float`.  The model keeps   *)
(* the three non-finite outcomes (NaN, +Inf, -Inf) and represents every    *)
(* finite float by the exact rational it denotes, as a normalised record   *)
(* [k |-> "fin", n |-> numerator, d |-> denominator > 0].  The four float  *)
(* operators are the exact rational operations extended by the IEEE rules  *)
(* for the non-finite values; the rounding error of the finite operations  *)
(* (the "tolerance" of the specification) is not modelled, and neither is  *)
(* the sign of zero.                                                       *)
(*                                                                         *)
(* Strings are sequences of one-character strings.                         *)
(***************************************************************************)
EXTENDS Integers, Sequences, FiniteSets, TLC

\* ------------------------------------------------------------------------
\* float arithmetic
\* ------------------------------------------------------------------------

Abs(x) == IF x < 0 THEN -x ELSE x

RECURSIVE GCD(_, _)
GCD(a, b) == IF b = 0 THEN a ELSE GCD(b, a % b)

Sign(x) == IF x < 0 THEN -1 ELSE IF x > 0 THEN 1 ELSE 0

\* the finite float n/d (d # 0), in lowest terms with a positive denominator
Fin(n, d) ==
    LET g == GCD(Abs(n), Abs(d))
        s == IF d < 0 THEN -1 ELSE 1
    IN  [k |-> "fin", n |-> (s * n) \div g, d |-> (s * d) \div g]

NaN == [k |-> "nan", n |-> 0, d |-> 0]
Inf(s) == [k |-> "inf", n |-> s, d |-> 0]

IsFin(a) == a.k = "fin"
IsNaN(a) == a.k = "nan"
IsInf(a) == a.k = "inf"
IsZero(a) == IsFin(a) /\ a.n = 0

\* sign of a float that is not NaN
FSign(a) == Sign(a.n)

\* unary minus
FNeg(a) == IF IsNaN(a) THEN NaN ELSE [a EXCEPT !.n = -a.n]

\* a + b
FAdd(a, b) ==
    IF IsNaN(a) \/ IsNaN(b) THEN NaN
    ELSE IF IsInf(a) /\ IsInf(b) THEN (IF a.n = b.n THEN a ELSE NaN)
    ELSE IF IsInf(a) THEN a
    ELSE IF IsInf(b) THEN b
    ELSE Fin(a.n * b.d + b.n * a.d, a.d * b.d)

\* a - b
FSub(a, b) == FAdd(a, FNeg(b))

\* a * b
FMul(a, b) ==
    IF IsNaN(a) \/ IsNaN(b) THEN NaN
    ELSE IF IsInf(a) \/ IsInf(b)
         THEN (IF IsZero(a) \/ IsZero(b) THEN NaN ELSE Inf(FSign(a) * FSign(b)))
    ELSE Fin(a.n * b.n, a.d * b.d)

\* a / b
FDiv(a, b) ==
    IF IsNaN(a) \/ IsNaN(b) THEN NaN
    ELSE IF IsInf(a) /\ IsInf(b) THEN NaN
    ELSE IF IsInf(a) THEN Inf(FSign(a) * (IF FSign(b) < 0 THEN -1 ELSE 1))
    ELSE IF IsInf(b) THEN Fin(0, 1)
    ELSE IF IsZero(b) THEN (IF IsZero(a) THEN NaN ELSE Inf(FSign(a)))
    ELSE Fin(a.n * b.d, a.d * b.n)

\* a < b and a <= b (false when either side is NaN)
FLess(a, b) ==
    /\ ~IsNaN(a) /\ ~IsNaN(b)
    /\ IF IsInf(a) THEN a.n < 0 /\ ~(IsInf(b) /\ b.n < 0)
       ELSE IF IsInf(b) THEN b.n > 0
       ELSE a.n * b.d < b.n * a.d

FLeq(a, b) == ~IsNaN(a) /\ ~IsNaN(b) /\ (a = b \/ FLess(a, b))

\* floorf(a) of a finite float, as an integer
Floorf(a) == a.n \div a.d

\* ------------------------------------------------------------------------
\* strings
\* ------------------------------------------------------------------------

DigitChars == <<"0", "1", "2", "3", "4", "5", "6", "7", "8", "9">>

IsDigit(c) == \E i \in 1..10 : DigitChars[i] = c

DigitVal(c) == (CHOOSE i \in 1..10 : DigitChars[i] = c) - 1

RECURSIVE Pow10(_)
Pow10(e) == IF e <= 0 THEN 1 ELSE 10 * Pow10(e - 1)

\* the decimal digits of the natural number n, at least one digit
RECURSIVE DigitsOf(_)
DigitsOf(n) ==
    IF n < 10 THEN <<DigitChars[n + 1]>>
    ELSE DigitsOf(n \div 10) \o <<DigitChars[(n % 10) + 1]>>

\* the decimal digits of n, left-padded with zeros to w digits
RECURSIVE PadDigits(_, _)
PadDigits(n, w) ==
    IF w <= 0 THEN <<>>
    ELSE PadDigits(n \div 10, w - 1) \o <<DigitChars[(n % 10) + 1]>>

\* String::substring (startIndex, endIndex): the characters
\* [startIndex, endIndex) of s, with both indexes clipped to the string
Substring(s, startIndex, endIndex) ==
    LET st == IF startIndex < 0 THEN 0 ELSE startIndex
        en == IF endIndex > Len(s) THEN Len(s) ELSE endIndex
    IN  IF en <= st THEN <<>> ELSE SubSeq(s, st + 1, en)

\* operator<< of a float on a stream in std::fixed notation with
\* std::setprecision(prec): round to prec decimals (ties to even)
FormatFixed(a, prec) ==
    IF IsNaN(a) THEN <<"n", "a", "n">>
    ELSE IF IsInf(a)
         THEN (IF a.n < 0 THEN <<"-">> ELSE <<>>) \o <<"i", "n", "f">>
    ELSE LET scaled == Abs(a.n) * Pow10(prec)
             q == scaled \div a.d
             r == scaled % a.d
             N == IF 2 * r > a.d \/ (2 * r = a.d /\ q % 2 = 1)
                  THEN q + 1 ELSE q
             ip == DigitsOf(N \div Pow10(prec))
             fp == IF prec > 0
                   THEN <<".">> \o PadDigits(N % Pow10(prec), prec)
                   ELSE <<>>
         IN  (IF a.n < 0 THEN <<"-">> ELSE <<>>) \o ip \o fp

\* the digits and the optional decimal point that start s at index i:
\* <<numerator, denominator>> of the number read so far
RECURSIVE ReadDigits(_, _, _, _, _)
ReadDigits(s, i, acc, scale, seenDot) ==
    IF i > Len(s) THEN <<acc, scale>>
    ELSE IF IsDigit(s[i])
         THEN ReadDigits(s, i + 1, acc * 10 + DigitVal(s[i]),
                         IF seenDot THEN scale * 10 ELSE scale, seenDot)
    ELSE IF s[i] = "." /\ ~seenDot
         THEN ReadDigits(s, i + 1, acc, scale, TRUE)
    ELSE <<acc, scale>>

\* String::getFloatValue(): the number the text starts with; 0 when the
\* text starts with no number
GetFloatValue(text) ==
    LET neg  == Len(text) > 0 /\ text[1] = "-"
        sgn  == Len(text) > 0 /\ text[1] \in {"-", "+"}
        body == IF sgn THEN Tail(text) ELSE text
        s    == IF neg THEN -1 ELSE 1
    IN  IF Len(body) >= 3 /\ SubSeq(body, 1, 3) = <<"n", "a", "n">> THEN NaN
        ELSE IF Len(body) >= 3 /\ SubSeq(body, 1, 3) = <<"i", "n", "f">>
             THEN Inf(s)
        ELSE LET nd == ReadDigits(body, 1, 0, 1, FALSE)
             IN  Fin(s * nd[1], nd[2])

\* ------------------------------------------------------------------------
\* PluginParameter: a descriptor P is the record of its data members
\*   default_value, value, actual_minimum, actual_maximum, precision,
\*   name, callback (TRUE when callback != nullptr)
\* ------------------------------------------------------------------------

\* Atomic<float>::get and Atomic<float>::set
AtomicGet(cell) == cell

\* (mutant) a store that is not atomic leaves a mix of the old and new value
TornSet(cell, newValue) == FDiv(FAdd(cell, newValue), Fin(2, 1))

AtomicSet(cell, newValue) == newValue

\* (mutant) the offset is divided by the maximum, not by the range
calculateValueByMaximum(P, actualValue) ==
    FDiv(FSub(actualValue, P.actual_minimum), P.actual_maximum)

calculateValue(P, actualValue) ==
    FDiv(FSub(actualValue, P.actual_minimum),
         FSub(P.actual_maximum, P.actual_minimum))

\* (mutant) the maximum is scaled, not the range
calculateActualValueByMaximum(P, v) ==
    FAdd(P.actual_minimum, FMul(P.actual_maximum, v))

calculateActualValue(P, v) ==
    FAdd(P.actual_minimum,
         FMul(FSub(P.actual_maximum, P.actual_minimum), v))

getActualValue(P) == calculateActualValue(P, AtomicGet(P.value))

getActualDefaultValue(P) == calculateActualValue(P, P.default_value)

getValue(P) == AtomicGet(P.value)

getDefaultValue(P) == P.default_value

\* (mutant) the end index is off by one upwards
getNameLong(P, maximumStringLength) ==
    IF maximumStringLength < Len(P.name)
    THEN Substring(P.name, 0, maximumStringLength + 1)
    ELSE P.name

getName(P, maximumStringLength) ==
    IF maximumStringLength < Len(P.name)
    THEN Substring(P.name, 0, maximumStringLength - 1)
    ELSE P.name

getText(P, v, stringLength) ==
    FormatFixed(calculateActualValue(P, v), P.precision)

getValueForText(P, text) == GetFloatValue(text)

\* ------------------------------------------------------------------------
\* bounds and input sets
\* ------------------------------------------------------------------------

\* setValue calls made on the single descriptor of SpecParam
MaxSets == 1
\* largest maximumStringLength passed to getName
MaxStringLength == 6
\* largest precision a descriptor is built with
MaxPrecision == 1

Zero == Fin(0, 1)
One == Fin(1, 1)

\* normalized values handed to setValue and to the conversions
NormValues == {Fin(-1, 16), Zero, Fin(1, 2), One, Fin(9, 8)}
\* actual-domain range bounds and defaults handed to the constructors
ActualBounds == {Zero, One, Fin(25, 1)}
ActualDefaults == {One, Fin(4, 1)}
NormDefaults == {Zero, Fin(1, 2), Fin(3, 2)}
Names == {<<"M", "i", "x">>, <<"D", "r", "i", "v", "e">>}
\* texts typed into a host text field
Texts == {<<"a", "b", "c">>, <<"1", "3", ".", "0", "0">>, <<"-", ".", "5">>,
          <<"0", ".", "2", "5", "d", "B">>, <<>>}

InUnitRange(v) == FLeq(Zero, v) /\ FLeq(v, One)

\* ------------------------------------------------------------------------
\* state
\* ------------------------------------------------------------------------

VARIABLES
    \* SpecParam: one descriptor built with arbitrary arguments
    pstate,     \* "none" before construction, "built" after
    pp,         \* the descriptor's data members
    pargs,      \* the constructor used and the default handed to it
    psets,      \* number of setValue calls made after construction
    pcbCount,   \* number of invocations of the descriptor's callback
    pcbLast,    \* argument of the last invocation
    pinRange,   \* the default and every setValue argument were in [0, 1]
    res,        \* the last member function called, its argument and result
    \* Spec: PluginAudioProcessor and the threads that use it
    ctorPos,    \* number of parameters the processor's constructor has added
    params,     \* the descriptors mode, drive, threshold, mix
    controls,   \* processor->controls, the engine's control struct
    cbCount,    \* per descriptor, number of invocations of its callback
    cbLast,     \* per descriptor, argument of the last invocation
    calls,      \* number of setValue calls started by the setter threads
    pc,         \* per setter thread, its position inside setValue
    call,       \* per setter thread, its current or last setValue call
    written,    \* per descriptor, the arguments of the setValue calls so far
    observed,   \* the last getValue() made by a reader thread
    seen        \* the controls read by the last processBlock

pvars == <<pstate, pp, pargs, psets, pcbCount, pcbLast, pinRange, res>>

avars == <<ctorPos, params, controls, cbCount, cbLast, calls, pc, call,
           written, observed, seen>>

vars == <<pvars, avars>>

\* data members before the constructor has run
NoParameter ==
    [default_value |-> NaN, value |-> Zero, actual_minimum |-> NaN,
     actual_maximum |-> NaN, precision |-> 0, name |-> <<>>,
     callback |-> FALSE]

NoResult == [op |-> "none"]

PInit ==
    /\ pstate = "none"
    /\ pp = NoParameter
    /\ pargs = [ctor |-> "none", def |-> Zero]
    /\ psets = 0
    /\ pcbCount = 0
    /\ pcbLast = NaN
    /\ pinRange = TRUE
    /\ res = NoResult

\* ------------------------------------------------------------------------
\* PluginParameter: constructors and setValue
\* ------------------------------------------------------------------------

\* (mutant) the actual value is stored instead of the normalized one
StoreActualValue(P, newValue) ==
    [P EXCEPT !.value = AtomicSet(P.value, calculateActualValue(P, newValue))]

\* setValue, first statement: the descriptor after value.set(newValue)
StoreValue(P, newValue) == [P EXCEPT !.value = AtomicSet(P.value, newValue)]

\* setValue run by a single caller: the descriptor it leaves, whether the
\* callback was invoked and the argument handed to it
setValue(P, newValue) ==
    LET stored == StoreValue(P, newValue)
    IN  [P |-> stored,
         fired |-> stored.callback,
         arg |-> IF stored.callback THEN getActualValue(stored) ELSE NaN]

\* (mutant) setValue is called before the range [0, 1] is assigned
ConstructNormalizedEarly(defaultParameterValue, parameterName, prec, cb) ==
    LET members == [NoParameter EXCEPT !.name = parameterName,
                                       !.default_value = defaultParameterValue,
                                       !.precision = prec,
                                       !.callback = cb]
        r       == setValue(members, defaultParameterValue)
    IN  [r EXCEPT !.P = [r.P EXCEPT !.actual_minimum = Zero,
                                    !.actual_maximum = One]]

\* the constructor from a normalized default
ConstructNormalized(defaultParameterValue, parameterName, prec, cb) ==
    LET members == [NoParameter EXCEPT !.name = parameterName,
                                       !.default_value = defaultParameterValue,
                                       !.precision = prec,
                                       !.callback = cb]
        ranged  == [members EXCEPT !.actual_minimum = Zero,
                                   !.actual_maximum = One]
    IN  setValue(ranged, defaultParameterValue)

\* the constructor from an actual default and range
ConstructActual(actualDefaultValue, actualMinimum, actualMaximum, parameterName, prec, cb) ==
    LET members   == [NoParameter EXCEPT !.name = parameterName,
                                         !.actual_minimum = actualMinimum,
                                         !.actual_maximum = actualMaximum,
                                         !.precision = prec,
                                         !.callback = cb]
        defaulted == [members EXCEPT
                        !.default_value =
                            calculateValue(members, actualDefaultValue)]
    IN  setValue(defaulted, defaulted.default_value)

\* the callback bookkeeping of one setValue call with result r
Notify(r) ==
    IF r.fired
    THEN /\ pcbCount' = pcbCount + 1
         /\ pcbLast' = r.arg
    ELSE UNCHANGED <<pcbCount, pcbLast>>

NewNormalized ==
    /\ pstate = "none"
    /\ \E def \in NormDefaults, nm \in Names, prec \in 0..MaxPrecision,
          cb \in BOOLEAN :
          LET r == ConstructNormalized(def, nm, prec, cb)
          IN  /\ pp' = r.P
              /\ pargs' = [ctor |-> "normalized", def |-> def]
              /\ pinRange' = InUnitRange(def)
              /\ Notify(r)
    /\ pstate' = "built"
    /\ UNCHANGED <<psets, res>>
    /\ UNCHANGED avars

NewActual ==
    /\ pstate = "none"
    /\ \E def \in ActualDefaults, lo \in ActualBounds, hi \in ActualBounds,
          nm \in Names, prec \in 0..MaxPrecision, cb \in BOOLEAN :
          LET r == ConstructActual(def, lo, hi, nm, prec, cb)
          IN  /\ pp' = r.P
              /\ pargs' = [ctor |-> "actual", def |-> def]
              /\ pinRange' = InUnitRange(r.P.default_value)
              /\ Notify(r)
    /\ pstate' = "built"
    /\ UNCHANGED <<psets, res>>
    /\ UNCHANGED avars

PSetValue ==
    /\ pstate = "built"
    /\ psets < MaxSets
    /\ \E newValue \in NormValues :
          LET r == setValue(pp, newValue)
          IN  /\ pp' = r.P
              /\ pinRange' = (pinRange /\ InUnitRange(newValue))
              /\ Notify(r)
    /\ psets' = psets + 1
    /\ UNCHANGED <<pstate, pargs, res>>
    /\ UNCHANGED avars

\* calculateValue(calculateActualValue(v))
CallConversions ==
    /\ pstate = "built"
    /\ \E v \in NormValues :
          res' = [op |-> "convert", in |-> v,
                  mid |-> calculateActualValue(pp, v),
                  out |-> calculateValue(pp, calculateActualValue(pp, v))]
    /\ UNCHANGED <<pstate, pp, pargs, psets, pcbCount, pcbLast, pinRange>>
    /\ UNCHANGED avars

CallGetName ==
    /\ pstate = "built"
    /\ \E n \in 0..MaxStringLength :
          res' = [op |-> "getName", in |-> n, out |-> getName(pp, n)]
    /\ UNCHANGED <<pstate, pp, pargs, psets, pcbCount, pcbLast, pinRange>>
    /\ UNCHANGED avars

\* getValueForText(getText(v))
CallGetText ==
    /\ pstate = "built"
    /\ \E v \in NormValues :
          res' = [op |-> "text", in |-> v,
                  mid |-> getText(pp, v, 0),
                  out |-> getValueForText(pp, getText(pp, v, 0))]
    /\ UNCHANGED <<pstate, pp, pargs, psets, pcbCount, pcbLast, pinRange>>
    /\ UNCHANGED avars

CallGetValueForText ==
    /\ pstate = "built"
    /\ \E t \in Texts :
          res' = [op |-> "parse", in |-> t, out |-> getValueForText(pp, t)]
    /\ UNCHANGED <<pstate, pp, pargs, psets, pcbCount, pcbLast, pinRange>>
    /\ UNCHANGED avars

\* ------------------------------------------------------------------------
\* PluginAudioProcessor
\* ------------------------------------------------------------------------

\* total number of setValue calls the setter threads make
MaxCalls == 2

ParamIds == {"mode", "drive", "threshold", "mix"}
\* the order of the addParameter calls
ParamOrder == <<"mode", "drive", "threshold", "mix">>
\* threads of the host that call setValue
Setters == {1, 2}
\* values the host hands to setValue
HostValues == {Fin(-1, 16), Fin(1, 4), One}
\* what a conversion of a non-finite float to int may leave
AnyInt == {-1, 0, 7}
\* the control struct as `new Distortion()` may leave it
FreshControls ==
    {[mode |-> 0, drive |-> Zero, threshold |-> Zero, mix |-> Zero],
     [mode |-> 7, drive |-> Fin(5, 1), threshold |-> Fin(1, 2),
      mix |-> Fin(1, 2)]}

NoCall == [id |-> "none", newValue |-> Zero, arg |-> NaN, fired |-> 0]

AInitWith(fresh) ==
    /\ ctorPos = 0
    /\ params = [id \in ParamIds |-> NoParameter]
    /\ controls \in fresh
    /\ cbCount = [id \in ParamIds |-> 0]
    /\ cbLast = [id \in ParamIds |-> NaN]
    /\ calls = 0
    /\ pc = [t \in Setters |-> "idle"]
    /\ call = [t \in Setters |-> NoCall]
    /\ written = [id \in ParamIds |-> {}]
    /\ observed = [id |-> "none", v |-> Zero]
    /\ seen = [read |-> FALSE]

\* the integer part of a finite float (rounding toward zero)
Trunc(a) == IF a.n >= 0 THEN a.n \div a.d ELSE -((-a.n) \div a.d)

\* (mutant) the value is converted to int without floorf
ModeIndexesTruncated(actualValue) ==
    IF IsFin(actualValue) THEN {Trunc(actualValue)} ELSE AnyInt

\* static_cast<int>(floorf(actualValue)): undefined for a non-finite float
ModeIndexes(actualValue) ==
    IF IsFin(actualValue) THEN {Floorf(actualValue)} ELSE AnyInt

\* the lambdas handed to the four descriptors: the control structs that
\* the callback of descriptor id may leave when called with actualValue
Callback(id, c, actualValue) ==
    IF id = "mode"
    THEN {[c EXCEPT !.mode = m] : m \in ModeIndexes(actualValue)}
    ELSE IF id = "drive" THEN {[c EXCEPT !.drive = actualValue]}
    ELSE IF id = "threshold" THEN {[c EXCEPT !.threshold = actualValue]}
    ELSE {[c EXCEPT !.mix = actualValue]}

\* the `new PluginParameter(...)` of the processor's constructor
NewParameter(id) ==
    IF id = "mode"
    THEN ConstructActual(Zero, Zero, Fin(8, 1), <<"M", "o", "d", "e">>, 0, TRUE)
    ELSE IF id = "drive"
    THEN ConstructActual(One, One, Fin(25, 1),
                         <<"D", "r", "i", "v", "e">>, 2, TRUE)
    ELSE IF id = "threshold"
    THEN ConstructActual(One, Fin(1, 100), One,
                         <<"T", "h", "r", "e", "s", "h", "o", "l", "d">>,
                         2, TRUE)
    ELSE ConstructNormalized(One, <<"M", "i", "x">>, 2, TRUE)

\* one addParameter(x = new PluginParameter(...)) of the constructor
AddParameter(id) ==
    /\ ctorPos < Len(ParamOrder)
    /\ ParamOrder[ctorPos + 1] = id
    /\ LET r == NewParameter(id)
       IN  /\ params' = [params EXCEPT ![id] = r.P]
           /\ IF r.fired
              THEN /\ controls' \in Callback(id, controls, r.arg)
                   /\ cbCount' = [cbCount EXCEPT ![id] = @ + 1]
                   /\ cbLast' = [cbLast EXCEPT ![id] = r.arg]
              ELSE UNCHANGED <<controls, cbCount, cbLast>>
    /\ ctorPos' = ctorPos + 1
    /\ UNCHANGED <<calls, pc, call, written, observed, seen>>
    /\ UNCHANGED pvars

AddMode == AddParameter("mode")
AddDrive == AddParameter("drive")
AddThreshold == AddParameter("threshold")
AddMix == AddParameter("mix")

\* the processor exists: its constructor has returned
Constructed == ctorPos = Len(ParamOrder)

\* setValue, `value.set(newValue)`
SetValueStore(t) ==
    /\ Constructed
    /\ pc[t] = "idle"
    /\ calls < MaxCalls
    /\ \E id \in ParamIds, newValue \in HostValues :
          /\ params' = [params EXCEPT ![id] = StoreValue(@, newValue)]
          /\ call' = [call EXCEPT ![t] = [id |-> id, newValue |-> newValue,
                                          arg |-> NaN, fired |-> 0]]
          /\ written' = [written EXCEPT ![id] = @ \cup {newValue}]
    /\ pc' = [pc EXCEPT ![t] = "stored"]
    /\ calls' = calls + 1
    /\ UNCHANGED <<ctorPos, controls, cbCount, cbLast, observed, seen>>
    /\ UNCHANGED pvars

\* setValue, `callback != nullptr` and the evaluation of getActualValue()
SetValueRead(t) ==
    /\ pc[t] = "stored"
    /\ IF params[call[t].id].callback
       THEN /\ call' = [call EXCEPT
                          ![t].arg = getActualValue(params[call[t].id])]
            /\ pc' = [pc EXCEPT ![t] = "read"]
       ELSE /\ pc' = [pc EXCEPT ![t] = "idle"]
            /\ UNCHANGED call
    /\ UNCHANGED <<ctorPos, params, controls, cbCount, cbLast, calls,
                   written, observed, seen>>
    /\ UNCHANGED pvars

\* setValue, the call of the callback, and the return
SetValueCallback(t) ==
    /\ pc[t] = "read"
    /\ controls' \in Callback(call[t].id, controls, call[t].arg)
    /\ cbCount' = [cbCount EXCEPT ![call[t].id] = @ + 1]
    /\ cbLast' = [cbLast EXCEPT ![call[t].id] = call[t].arg]
    /\ call' = [call EXCEPT ![t].fired = @ + 1]
    /\ pc' = [pc EXCEPT ![t] = "idle"]
    /\ UNCHANGED <<ctorPos, params, calls, written, observed, seen>>
    /\ UNCHANGED pvars

\* getValue() on a reader thread
GetValue ==
    /\ Constructed
    /\ \E id \in ParamIds :
          observed' = [id |-> id, v |-> getValue(params[id])]
    /\ UNCHANGED <<ctorPos, params, controls, cbCount, cbLast, calls, pc,
                   call, written, seen>>
    /\ UNCHANGED pvars

\* processBlock on the audio thread: processSample reads the controls
ProcessBlock ==
    /\ Constructed
    /\ seen' = [read |-> TRUE, controls |-> controls]
    /\ UNCHANGED <<ctorPos, params, controls, cbCount, cbLast, calls, pc,
                   call, written, observed>>
    /\ UNCHANGED pvars

Init == AInitWith(FreshControls) /\ PInit

Next ==
    \/ AddMode
    \/ AddDrive
    \/ AddThreshold
    \/ AddMix
    \/ \E t \in Setters : SetValueStore(t)
    \/ \E t \in Setters : SetValueRead(t)
    \/ \E t \in Setters : SetValueCallback(t)
    \/ GetValue
    \/ ProcessBlock

Spec == Init /\ [][Next]_vars

\* the single descriptor built with arbitrary arguments
InitParam ==
    PInit /\ AInitWith({[mode |-> 0, drive |-> Zero, threshold |-> Zero,
                         mix |-> Zero]})

NextParam ==
    \/ NewNormalized
    \/ NewActual
    \/ PSetValue
    \/ CallConversions
    \/ CallGetName
    \/ CallGetText
    \/ CallGetValueForText

SpecParam == InitParam /\ [][NextParam]_vars

\* ------------------------------------------------------------------------
\* properties
\* ------------------------------------------------------------------------

Idle == \A t \in Setters : pc[t] = "idle"

\* a setValue call of thread t has returned
Returned(t) == pc[t] = "idle" /\ call[t].id # "none"

IsPrefix(a, b) == Len(a) <= Len(b) /\ a = SubSeq(b, 1, Len(a))

\* the range is neither degenerate nor reversed
ProperRange(P) == FLess(P.actual_minimum, P.actual_maximum)

\* C1 (as claimed): every setValue(n) call that has returned invoked the
\* callback exactly once, and the argument of that invocation was toActual(n)
\* for the n of that same call, whatever other callers did meanwhile.
C1_CallbackGetsOwnValue ==
    \A t \in Setters :
        Returned(t) =>
            /\ call[t].fired = 1
            /\ call[t].arg =
                   calculateActualValue(params[call[t].id], call[t].newValue)

\* C2: every getValue() result is the construction-time value or the argument
\* of some setValue call on that descriptor, the stored value is always one of
\* these, and once every setValue call has returned the stored value of a
\* descriptor that was set is the argument of one of its calls.
C2_NoTornValue ==
    /\ observed.id # "none" =>
           observed.v \in
               {params[observed.id].default_value} \cup written[observed.id]
    /\ \A id \in ParamIds :
           Constructed =>
               /\ getValue(params[id]) \in
                      {params[id].default_value} \cup written[id]
               /\ (Idle /\ written[id] # {}) =>
                      getValue(params[id]) \in written[id]

\* two callers raced on one descriptor with different values, both have
\* returned, and a reader saw the value that lost
C2_Witness ==
    /\ Idle
    /\ call[1].id # "none"
    /\ call[1].id = call[2].id
    /\ call[1].newValue # call[2].newValue
    /\ observed.id = call[1].id
    /\ observed.v \in written[observed.id]
    /\ observed.v # getValue(params[observed.id])

\* C3 (as claimed, on descriptors with a proper range): the stored normalized
\* value is in [0, 1] after construction with any default and after any
\* setValue calls with any arguments.
C3_AlwaysInUnitRange ==
    (pstate = "built" /\ ProperRange(pp)) => InUnitRange(getValue(pp))

\* C3 (amended): the stored normalized value is in [0, 1] whenever the
\* normalized default and the arguments of all setValue calls so far were.
C3_InUnitRangeWhenArgumentsAre ==
    (pstate = "built" /\ pinRange) => InUnitRange(getValue(pp))

\* a setValue call with an argument in [0, 1] changed the stored value
C3_Witness ==
    /\ pstate = "built"
    /\ pinRange
    /\ psets >= 1
    /\ getValue(pp) # getDefaultValue(pp)

\* the actual-domain defaults handed to the four constructors
ActualDefault(id) == IF id = "mode" THEN Zero ELSE One

\* C4: every constructor run has invoked the descriptor's callback exactly
\* once, with the actual-domain default, and when the processor's constructor
\* has returned the controls are mode = 0, drive = threshold = mix = 1.0.
C4_ConstructionNotifiesOnce ==
    calls = 0 =>
        /\ \A i \in 1..Len(ParamOrder) :
               IF i <= ctorPos
               THEN /\ cbCount[ParamOrder[i]] = 1
                    /\ cbLast[ParamOrder[i]] = ActualDefault(ParamOrder[i])
               ELSE cbCount[ParamOrder[i]] = 0
        /\ Constructed =>
               controls = [mode |-> 0, drive |-> One, threshold |-> One,
                           mix |-> One]

\* the first processBlock after construction read the initial controls
C4_Witness ==
    /\ Constructed
    /\ calls = 0
    /\ seen.read
    /\ seen.controls = [mode |-> 0, drive |-> One, threshold |-> One,
                        mix |-> One]

\* C5: on a descriptor with actualMinimum # actualMaximum,
\* calculateValue(calculateActualValue(v)) = v for every v in [0, 1].
C5_RoundTrip ==
    (/\ res.op = "convert"
     /\ pp.actual_minimum # pp.actual_maximum
     /\ InUnitRange(res.in)) => res.out = res.in

\* the round trip of 1/2 through a range other than [0, 1]
C5_Witness ==
    /\ res.op = "convert"
    /\ pp.actual_minimum # pp.actual_maximum
    /\ res.in = Fin(1, 2)
    /\ res.mid # res.in
    /\ res.out = res.in

\* C6: right after the actual-range constructor with actualMinimum #
\* actualMaximum, getActualDefaultValue() and getActualValue() are the
\* actualDefaultValue given and getValue() = getDefaultValue(); range
\* [1, 25] with default 1 gives getValue() = 0 and getActualValue() = 1.
C6_ActualDefault ==
    (/\ pstate = "built"
     /\ pargs.ctor = "actual"
     /\ psets = 0
     /\ pp.actual_minimum # pp.actual_maximum) =>
        /\ getActualDefaultValue(pp) = pargs.def
        /\ getValue(pp) = getDefaultValue(pp)
        /\ getActualValue(pp) = pargs.def
        /\ (/\ pp.actual_minimum = One
            /\ pp.actual_maximum = Fin(25, 1)
            /\ pargs.def = One) =>
               (getValue(pp) = Zero /\ getActualValue(pp) = One)

\* the descriptor of range [1, 25] built with the default 4
C6_Witness ==
    /\ pstate = "built"
    /\ pargs.ctor = "actual"
    /\ psets = 0
    /\ pp.actual_minimum = One
    /\ pp.actual_maximum = Fin(25, 1)
    /\ pargs.def = Fin(4, 1)
    /\ getValue(pp) = Fin(1, 8)

\* C7: for n >= 1, getName(n) is a prefix of the name of length at most n,
\* and is the whole name when n is at least the name's length.
C7_GetName ==
    (res.op = "getName" /\ res.in >= 1) =>
        /\ IsPrefix(res.out, pp.name)
        /\ Len(res.out) <= res.in
        /\ res.in >= Len(pp.name) => res.out = pp.name

\* a name that was cut
C7_Witness ==
    /\ res.op = "getName"
    /\ res.in >= 1
    /\ res.in < Len(pp.name)
    /\ Len(res.out) < Len(pp.name)
    /\ Len(res.out) >= 1

\* C8 (as claimed): no constructed descriptor has actualMinimum =
\* actualMaximum, every constructed descriptor has actualMinimum <
\* actualMaximum, and no callback was invoked with a value computed from a
\* degenerate range.
C8_DegenerateRangeRejected ==
    pstate = "built" =>
        /\ pp.actual_minimum # pp.actual_maximum
        /\ ProperRange(pp)
        /\ pcbCount > 0 => pp.actual_minimum # pp.actual_maximum

\* C9 (as claimed): for a normalized v whose actual value is rendered exactly
\* by getText, getValueForText(getText(v)) = v, whatever the actual range
\* (stated here for the ranges with actualMinimum < actualMaximum).
C9_TextRoundTrip ==
    (/\ res.op = "text"
     /\ ProperRange(pp)
     /\ GetFloatValue(res.mid) = calculateActualValue(pp, res.in)) =>
        res.out = res.in

\* C10 (as claimed): the callback step of a setValue(n) call on mode, handed
\* toActual(n), leaves controls.mode = toActual(n) truncated toward zero.
C10_ModeTruncated ==
    [][\A t \in Setters :
          (/\ pc[t] = "read"
           /\ pc'[t] = "idle"
           /\ call[t].id = "mode"
           /\ call[t].arg = calculateActualValue(params["mode"],
                                                 call[t].newValue)) =>
              controls'.mode = Trunc(call[t].arg)]_vars

\* C10 (amended): the callback step of a setValue(n) call on mode, handed
\* toActual(n), leaves controls.mode = floor(toActual(n)), the largest
\* integer not above toActual(n).
C10_ModeFloored ==
    [][\A t \in Setters :
          (/\ pc[t] = "read"
           /\ pc'[t] = "idle"
           /\ call[t].id = "mode"
           /\ call[t].arg = calculateActualValue(params["mode"],
                                                 call[t].newValue)) =>
              controls'.mode = Floorf(call[t].arg)]_vars

\* setValue(-1/16) on mode has returned and left the index -1
C10_Witness ==
    \E t \in Setters :
        /\ Returned(t)
        /\ call[t].id = "mode"
        /\ call[t].newValue = Fin(-1, 16)
        /\ call[t].arg = Fin(-1, 2)
        /\ controls.mode = -1

\* the engine control that the callback of a float-valued descriptor writes
ControlOf(id) ==
    IF id = "drive" THEN controls.drive
    ELSE IF id = "threshold" THEN controls.threshold
    ELSE controls.mix

\* C11 (as claimed): whenever no setValue call is in progress, the engine
\* control of every constructed float-valued descriptor (drive, threshold,
\* mix) equals toActual(getValue()) of that descriptor; it never stays at
\* the value of a setValue call that was overwritten.
C11_ControlFollowsValue ==
    Idle =>
        \A i \in 1..ctorPos :
            ParamOrder[i] # "mode" =>
                ControlOf(ParamOrder[i]) = getActualValue(params[ParamOrder[i]])

====
